---- MODULE Spec2Model ----
(***************************************************************************)
(* generate_capnp.py: C++ class declarations -> Cap'n Proto schema.        *)
(*                                                                         *)
(* Python strings are modelled as sequences of one-character strings, so   *)
(* that find/rfind, slicing, strip, substring containment, concatenation,  *)
(* lower() and the ordering used by sorted() are computed as Python        *)
(* computes them.  A dict is a function whose DOMAIN is its key set.       *)
(***************************************************************************)
EXTENDS Integers, Sequences, FiniteSets, TLC

VARIABLES pc, argc, input, discovered_classes, discovered_optionals, results,
          written, output, emitted, printed, exitCode, calls, ret

vars == <<pc, argc, input, discovered_classes, discovered_optionals, results,
          written, output, emitted, printed, exitCode, calls, ret>>

(***************************************************************************)
(* Bounds of the model.                                                    *)
(***************************************************************************)
\* top-level cursors the parser yields in one run
MaxDecls == 2
\* children of all the class cursors of one run together
MaxChildren == 3
\* direct classifier calls in the classifier harness
MaxCalls == 2

(***************************************************************************)
(* String literals of the source.                                          *)
(***************************************************************************)
S_boost_optional == <<"b","o","o","s","t",":",":","o","p","t","i","o","n","a","l","<">>
S_std_basic_string == <<"s","t","d",":",":","b","a","s","i","c","_","s","t","r","i","n","g">>
S_std_vector == <<"s","t","d",":",":","v","e","c","t","o","r","<">>
S_std_string == <<"s","t","d",":",":","s","t","r","i","n","g">>
S_int == <<"i","n","t">>
S_short == <<"s","h","o","r","t">>
S_float == <<"f","l","o","a","t">>
S_double == <<"d","o","u","b","l","e">>
S_long_long == <<"l","o","n","g"," ","l","o","n","g">>
S_bool == <<"b","o","o","l">>
S_OptionalInt32 == <<"O","p","t","i","o","n","a","l","I","n","t","3","2">>
S_OptionalShort == <<"O","p","t","i","o","n","a","l","S","h","o","r","t">>
S_OptionalFloat32 == <<"O","p","t","i","o","n","a","l","F","l","o","a","t","3","2">>
S_OptionalFloat64 == <<"O","p","t","i","o","n","a","l","F","l","o","a","t","6","4">>
S_OptionalInt64 == <<"O","p","t","i","o","n","a","l","I","n","t","6","4">>
S_Optional == <<"O","p","t","i","o","n","a","l">>
S_Text == <<"T","e","x","t">>
S_Int32 == <<"I","n","t","3","2">>
S_UInt32 == <<"U","I","n","t","3","2">>
S_Int64 == <<"I","n","t","6","4">>
S_UInt64 == <<"U","I","n","t","6","4">>
S_Float32 == <<"F","l","o","a","t","3","2">>
S_Float64 == <<"F","l","o","a","t","6","4">>
S_Bool == <<"B","o","o","l">>
S_ListInt32 == <<"L","i","s","t","(","I","n","t","3","2",")">>
S_ListFloat32 == <<"L","i","s","t","(","F","l","o","a","t","3","2",")">>
S_ListFloat64 == <<"L","i","s","t","(","F","l","o","a","t","6","4",")">>
S_ListBool == <<"L","i","s","t","(","B","o","o","l",")">>
S_ListText == <<"L","i","s","t","(","T","e","x","t",")">>
S_header == <<"@","0","x","1","2","3","4","_","5","6","7","8","_","A","B","C","D","_","E","F","0","1",";","\n","\n">>
S_struct == <<"s","t","r","u","c","t"," ">>
S_open == <<" ","{","\n">>
S_indent == <<" "," ">>
S_at == <<" ","@">>
S_colon == <<" ",":">>
S_semi == <<";","\n">>
S_close == <<"}","\n","\n">>
S_value == <<" "," ","v","a","l","u","e"," ","@","0"," ",":">>

(***************************************************************************)
(* Spellings the external parser supplies in this model: class names,      *)
(* field names and type spellings.                                         *)
(***************************************************************************)
N_Foo == <<"F","o","o">>
N_OptionalFoo == <<"O","p","t","i","o","n","a","l","F","o","o">>
T_optional_Foo == <<"b","o","o","s","t",":",":","o","p","t","i","o","n","a","l","<","F","o","o",">">>
T_optional_int == <<"b","o","o","s","t",":",":","o","p","t","i","o","n","a","l","<","i","n","t",">">>
T_optional_Foo_sp == <<"b","o","o","s","t",":",":","o","p","t","i","o","n","a","l","<"," ","F","o","o"," ",">">>
T_optional_double == <<"b","o","o","s","t",":",":","o","p","t","i","o","n","a","l","<","d","o","u","b","l","e",">">>
T_optional_long_long == <<"b","o","o","s","t",":",":","o","p","t","i","o","n","a","l","<","l","o","n","g"," ","l","o","n","g",">">>
T_optional_bool == <<"b","o","o","s","t",":",":","o","p","t","i","o","n","a","l","<","b","o","o","l",">">>
T_optional_open == <<"b","o","o","s","t",":",":","o","p","t","i","o","n","a","l","<","F","o","o">>
T_optional_vector_int == <<"b","o","o","s","t",":",":","o","p","t","i","o","n","a","l","<","s","t","d",":",":","v","e","c","t","o","r","<","i","n","t",">",">">>
T_vector_int == <<"s","t","d",":",":","v","e","c","t","o","r","<","i","n","t",">">>
T_vector_float == <<"s","t","d",":",":","v","e","c","t","o","r","<","f","l","o","a","t",">">>
T_vector_double == <<"s","t","d",":",":","v","e","c","t","o","r","<","d","o","u","b","l","e",">">>
T_vector_bool == <<"s","t","d",":",":","v","e","c","t","o","r","<","b","o","o","l",">">>
T_vector_string == <<"s","t","d",":",":","v","e","c","t","o","r","<","s","t","d",":",":","s","t","r","i","n","g",">">>
T_vector_Foo == <<"s","t","d",":",":","v","e","c","t","o","r","<","F","o","o",">">>
T_vector_Point == <<"s","t","d",":",":","v","e","c","t","o","r","<","P","o","i","n","t",">">>
T_vector_basic_string == <<"s","t","d",":",":","v","e","c","t","o","r","<","s","t","d",":",":","b","a","s","i","c","_","s","t","r","i","n","g","<","c","h","a","r",">",">">>
T_vector_optional_int == <<"s","t","d",":",":","v","e","c","t","o","r","<","b","o","o","s","t",":",":","o","p","t","i","o","n","a","l","<","i","n","t",">",">">>
T_vector_open == <<"s","t","d",":",":","v","e","c","t","o","r","<","i","n","t">>
T_basic_string == <<"s","t","d",":",":","b","a","s","i","c","_","s","t","r","i","n","g","<","c","h","a","r",">">>
T_unsigned_int == <<"u","n","s","i","g","n","e","d"," ","i","n","t">>
T_long == <<"l","o","n","g">>
T_unsigned_long == <<"u","n","s","i","g","n","e","d"," ","l","o","n","g">>
T_unsigned_short == <<"u","n","s","i","g","n","e","d"," ","s","h","o","r","t">>
T_unsigned_long_long == <<"u","n","s","i","g","n","e","d"," ","l","o","n","g"," ","l","o","n","g">>
T_int_ptr == <<"i","n","t"," ","*">>
F_x == <<"x">>
F_Y == <<"Y">>
F_zed == <<"z","E","d">>

(***************************************************************************)
(* Python str operations.                                                  *)
(***************************************************************************)
\* the characters in use, in ascending code point order
AsciiOrder == <<"\n"," ","(",")","*","0","1","2","3","4","5","6","7","8","9",":",";","<",">","@","A","B","C","D","E","F","G","H","I","J","K","L","M","N","O","P","Q","R","S","T","U","V","W","X","Y","Z","_","a","b","c","d","e","f","g","h","i","j","k","l","m","n","o","p","q","r","s","t","u","v","w","x","y","z","{","}">>
UpperCase == <<"A","B","C","D","E","F","G","H","I","J","K","L","M","N","O","P","Q","R","S","T","U","V","W","X","Y","Z">>
LowerCase == <<"a","b","c","d","e","f","g","h","i","j","k","l","m","n","o","p","q","r","s","t","u","v","w","x","y","z">>
Whitespace == {" ", "\t", "\n"}

Range(s) == {s[i] : i \in 1..Len(s)}
MinOf(S) == CHOOSE i \in S : \A j \in S : i <= j
MaxOf(S) == CHOOSE i \in S : \A j \in S : i >= j

\* ord(c), up to an order-preserving renumbering
Code == [c \in Range(AsciiOrder) |-> CHOOSE i \in 1..Len(AsciiOrder) : AsciiOrder[i] = c]

\* s.find(c): 0-based index of the first c, -1 when there is none
Find(s, c) ==
  LET I == {i \in 1..Len(s) : s[i] = c}
  IN  IF I = {} THEN -1 ELSE MinOf(I) - 1

\* s.rfind(c): 0-based index of the last c, -1 when there is none
RFind(s, c) ==
  LET I == {i \in 1..Len(s) : s[i] = c}
  IN  IF I = {} THEN -1 ELSE MaxOf(I) - 1

\* s[a:b] for 0 <= a, 0 <= b
Slice(s, a, b) ==
  LET e == IF b < Len(s) THEN b ELSE Len(s)
  IN  IF e <= a THEN <<>> ELSE SubSeq(s, a + 1, e)

\* s.strip()
Strip(s) ==
  LET I == {i \in 1..Len(s) : s[i] \notin Whitespace}
  IN  IF I = {} THEN <<>> ELSE SubSeq(s, MinOf(I), MaxOf(I))

\* sub in s
Contains(sub, s) ==
  \E i \in 1..(Len(s) - Len(sub) + 1) : SubSeq(s, i, i + Len(sub) - 1) = sub

\* s.lower()
LowerChar(c) ==
  IF \E k \in 1..Len(UpperCase) : UpperCase[k] = c
  THEN LowerCase[CHOOSE k \in 1..Len(UpperCase) : UpperCase[k] = c]
  ELSE c
Lower(s) == [i \in 1..Len(s) |-> LowerChar(s[i])]

\* a < b on str
LexLess(a, b) ==
  LET n == IF Len(a) < Len(b) THEN Len(a) ELSE Len(b)
      D == {i \in 1..n : a[i] # b[i]}
  IN  IF D = {} THEN Len(a) < Len(b)
      ELSE Code[a[MinOf(D)]] < Code[b[MinOf(D)]]

\* sorted(S) for a set of str
RECURSIVE Sorted(_)
Sorted(S) ==
  IF S = {} THEN <<>>
  ELSE LET m == CHOOSE x \in S : \A y \in S \ {x} : LexLess(x, y)
       IN  <<m>> \o Sorted(S \ {m})

\* str(n) for n >= 0
Digits == <<"0","1","2","3","4","5","6","7","8","9">>
RECURSIVE Decimal(_)
Decimal(n) ==
  IF n < 10 THEN <<Digits[n + 1]>>
  ELSE Decimal(n \div 10) \o <<Digits[(n % 10) + 1]>>

\* "".join(ss)
RECURSIVE Join(_)
Join(ss) == IF ss = <<>> THEN <<>> ELSE Head(ss) \o Join(Tail(ss))

\* {} and d[k] = v
EmptyDict == [k \in {} |-> <<>>]
Put(d, k, v) == [x \in (DOMAIN d) \cup {k} |-> IF x = k THEN v ELSE d[x]]

(***************************************************************************)
(* 1. Helper functions.                                                    *)
(***************************************************************************)
OPTIONAL_TYPE_MAP ==
  (S_int :> S_OptionalInt32) @@ (S_short :> S_OptionalShort) @@
  (S_float :> S_OptionalFloat32) @@ (S_double :> S_OptionalFloat64) @@
  (S_long_long :> S_OptionalInt64)

None == [isNone |-> TRUE, val |-> <<>>]
Some(v) == [isNone |-> FALSE, val |-> v]

parse_boost_optional(typ_spelling) ==
  LET start == Find(typ_spelling, "<")
      end   == RFind(typ_spelling, ">")
  IN  IF start = -1 \/ end = -1 \/ end <= start
      THEN None
      ELSE Some(Strip(Slice(typ_spelling, start + 1, end)))

map_builtin_cpp_type_to_capnp(kind) ==
  IF kind \in {"INT", "LONG", "SHORT"} THEN Some(S_Int32)
  ELSE IF kind \in {"UINT", "ULONG", "USHORT"} THEN Some(S_UInt32)
  ELSE IF kind = "LONGLONG" THEN Some(S_Int64)
  ELSE IF kind = "ULONGLONG" THEN Some(S_UInt64)
  ELSE IF kind = "FLOAT" THEN Some(S_Float32)
  ELSE IF kind = "DOUBLE" THEN Some(S_Float64)
  ELSE IF kind = "BOOL" THEN Some(S_Bool)
  ELSE None

\* variant: the reference is returned but no stub is registered
RegisterStub_Never(classes, name) == classes

\* variant: the stub is written without the membership test
RegisterStub_Overwrite(classes, name) == Put(classes, name, <<>>)

\* if name not in discovered_classes: discovered_classes[name] = []
RegisterStub(classes, name) ==
  IF name \in DOMAIN classes THEN classes ELSE Put(classes, name, <<>>)

\* variant: key and value of the wrapper entry swapped
RegisterOptional_Swapped(optionals, opt_name, base_t) ==
  IF opt_name \in DOMAIN optionals THEN optionals ELSE Put(optionals, base_t, opt_name)

\* if opt_name not in discovered_optionals: discovered_optionals[opt_name] = base_t
RegisterOptional(optionals, opt_name, base_t) ==
  IF opt_name \in DOMAIN optionals THEN optionals ELSE Put(optionals, opt_name, base_t)

\* the element type of a std::vector, by substring containment in priority order
ListOf(inner) ==
  IF Contains(S_int, inner) THEN S_ListInt32
  ELSE IF Contains(S_float, inner) THEN S_ListFloat32
  ELSE IF Contains(S_double, inner) THEN S_ListFloat64
  ELSE IF Contains(S_bool, inner) THEN S_ListBool
  ELSE IF Contains(S_std_string, inner) THEN S_ListText
  ELSE S_ListText

Result(r, classes, optionals) ==
  [ret |-> r, discovered_classes |-> classes, discovered_optionals |-> optionals]

\* the user-defined-class exit of the RECORD branch
UserClass(spelling, classes, optionals) ==
  Result(spelling, RegisterStub(classes, spelling), optionals)

\* the boost::optional<...> branch
MapOptional(spelling, classes, optionals) ==
  LET base_t == parse_boost_optional(spelling)
  IN  IF base_t.isNone THEN Result(S_Text, classes, optionals)
      ELSE IF base_t.val \in DOMAIN OPTIONAL_TYPE_MAP
      THEN Result(OPTIONAL_TYPE_MAP[base_t.val], classes, optionals)
      ELSE LET opt_name == S_Optional \o base_t.val
           IN  Result(opt_name,
                      RegisterStub(classes, base_t.val),
                      RegisterOptional(optionals, opt_name, base_t.val))

\* the RECORD branch
MapRecord(spelling, classes, optionals) ==
  IF Contains(S_std_basic_string, spelling) THEN Result(S_Text, classes, optionals)
  ELSE IF Contains(S_std_vector, spelling)
  THEN LET start == Find(spelling, "<")
           end   == RFind(spelling, ">")
       IN  IF start # -1 /\ end # -1
           THEN Result(ListOf(Strip(Slice(spelling, start + 1, end))), classes, optionals)
           ELSE UserClass(spelling, classes, optionals)
  ELSE UserClass(spelling, classes, optionals)

\* field_type is [spelling, kind]; the result carries the return value and the
\* two dicts as the call leaves them
map_field_type_to_capnp(field_type, classes, optionals) ==
  LET spelling == field_type.spelling
      kind     == field_type.kind
      builtin_map == map_builtin_cpp_type_to_capnp(kind)
  IN  IF Contains(S_boost_optional, spelling) THEN MapOptional(spelling, classes, optionals)
      ELSE IF ~builtin_map.isNone THEN Result(builtin_map.val, classes, optionals)
      ELSE IF kind = "RECORD" THEN MapRecord(spelling, classes, optionals)
      ELSE Result(S_Text, classes, optionals)

(***************************************************************************)
(* 3. AST traversal.                                                       *)
(***************************************************************************)
\* variant: fields.insert(0, ...)
AppendField_Prepend(fields, f) == <<f>> \o fields

\* fields.append((field_name, capnp_type))
AppendField(fields, f) == Append(fields, f)

\* the loop of process_class over the cursor's children
RECURSIVE walk_children(_, _, _, _)
walk_children(children, fields, classes, optionals) ==
  IF children = <<>>
  THEN [fields |-> fields, discovered_classes |-> classes, discovered_optionals |-> optionals]
  ELSE LET child == Head(children)
       IN  IF child.kind = "FIELD_DECL"
           THEN LET r == map_field_type_to_capnp(child.type, classes, optionals)
                IN  walk_children(Tail(children),
                                  AppendField(fields, <<child.spelling, r.ret>>),
                                  r.discovered_classes, r.discovered_optionals)
           ELSE walk_children(Tail(children), fields, classes, optionals)

process_class(cls_cursor, classes, optionals) ==
  LET w == walk_children(cls_cursor.children, <<>>, classes, optionals)
  IN  [class_name |-> cls_cursor.spelling, fields |-> w.fields,
       discovered_classes |-> w.discovered_classes,
       discovered_optionals |-> w.discovered_optionals]

\* variant: an existing entry is kept
StoreClass_FirstWins(classes, cls_name, fields) ==
  IF cls_name # <<>> /\ fields # <<>> /\ cls_name \notin DOMAIN classes
  THEN Put(classes, cls_name, fields) ELSE classes

\* if cls_name and fields: discovered_classes[cls_name] = fields
StoreClass(classes, cls_name, fields) ==
  IF cls_name # <<>> /\ fields # <<>> THEN Put(classes, cls_name, fields) ELSE classes

\* if cls_name and fields: results.append((cls_name, fields))
StoreResult(res, cls_name, fields) ==
  IF cls_name # <<>> /\ fields # <<>> THEN Append(res, <<cls_name, fields>>) ELSE res

Store(classes, optionals, res) ==
  [discovered_classes |-> classes, discovered_optionals |-> optionals, results |-> res]

\* the body of the cursor loop of parse_headers_in_directory
visit_cursor(c, st) ==
  IF c.kind = "CLASS_DECL"
  THEN LET p == process_class(c, st.discovered_classes, st.discovered_optionals)
       IN  Store(StoreClass(p.discovered_classes, p.class_name, p.fields),
                 p.discovered_optionals,
                 StoreResult(st.results, p.class_name, p.fields))
  ELSE st

\* the cursor loop over all the cursors the parser yields, in order
RECURSIVE parse_headers_in_directory(_, _)
parse_headers_in_directory(cursors, st) ==
  IF cursors = <<>> THEN st
  ELSE parse_headers_in_directory(Tail(cursors), visit_cursor(Head(cursors), st))

(***************************************************************************)
(* 4. Generate capnp file.                                                 *)
(***************************************************************************)
\* enumerate(fields): one line per field, index by position
FieldLines(fields) ==
  [i \in 1..Len(fields) |->
     [name |-> Lower(fields[i][1]), idx |-> i - 1, type |-> fields[i][2]]]

\* the blocks in the order the two loops write them
ClassBlocks(classes) ==
  LET names == Sorted(DOMAIN classes)
  IN  [i \in 1..Len(names) |->
         [kind |-> "class", name |-> names[i], lines |-> FieldLines(classes[names[i]])]]

OptionalBlocks(optionals) ==
  LET names == Sorted(DOMAIN optionals)
  IN  [i \in 1..Len(names) |->
         [kind |-> "optional", name |-> names[i],
          lines |-> <<[name |-> <<"v","a","l","u","e">>, idx |-> 0, type |-> optionals[names[i]]]>>]]

Blocks(classes, optionals) == ClassBlocks(classes) \o OptionalBlocks(optionals)

\* the f.write calls of one block
WriteLine(l) == S_indent \o l.name \o S_at \o Decimal(l.idx) \o S_colon \o l.type \o S_semi
WriteBlock(b) ==
  S_struct \o b.name \o S_open \o
  (IF b.kind = "class"
   THEN Join([i \in 1..Len(b.lines) |-> WriteLine(b.lines[i])])
   ELSE S_value \o b.lines[1].type \o S_semi) \o
  S_close

\* the text of the file
generate_capnp_file(classes, optionals) ==
  LET bs == Blocks(classes, optionals)
  IN  S_header \o Join([i \in 1..Len(bs) |-> WriteBlock(bs[i])])

(***************************************************************************)
(* The input the external parser supplies.                                 *)
(***************************************************************************)
Type(spelling, kind) == [spelling |-> spelling, kind |-> kind]
Field(name, type) == [kind |-> "FIELD_DECL", spelling |-> name, type |-> type]
Method == [kind |-> "CXX_METHOD", spelling |-> <<"g","e","t">>, type |-> Type(S_int, "FUNCTIONPROTO")]

ChildPool ==
  { Field(F_x, Type(N_Foo, "RECORD")),
    Field(F_Y, Type(T_optional_Foo, "RECORD")),
    Field(F_zed, Type(T_optional_int, "RECORD")),
    Field(F_x, Type(S_int, "INT")),
    Method }

SeqsUpTo(S, n) == UNION {[1..k -> S] : k \in 0..n}

ClassNames == {<<>>, N_Foo, N_OptionalFoo}

\* the class cursors with at most n children
ClassCursors(n) ==
  {[kind |-> "CLASS_DECL", spelling |-> n_, children |-> cs] :
     n_ \in ClassNames, cs \in SeqsUpTo(ChildPool, n)}

\* the children of the cursors visited so far
RECURSIVE CountChildren(_)
CountChildren(cursors) ==
  IF cursors = <<>> THEN 0
  ELSE Len(Head(cursors).children) + CountChildren(Tail(cursors))

\* a top-level cursor that is no class declaration
OtherCursors ==
  {[kind |-> "STRUCT_DECL", spelling |-> N_Foo, children |-> <<Field(F_x, Type(S_int, "INT"))>>]}

\* the types handed directly to the classifier in the classifier harness
TypePool ==
  { Type(S_int, "INT"), Type(T_long, "LONG"), Type(S_short, "SHORT"),
    Type(T_unsigned_int, "UINT"), Type(T_unsigned_long, "ULONG"),
    Type(T_unsigned_short, "USHORT"), Type(S_long_long, "LONGLONG"),
    Type(T_unsigned_long_long, "ULONGLONG"), Type(S_float, "FLOAT"),
    Type(S_double, "DOUBLE"), Type(S_bool, "BOOL"), Type(T_int_ptr, "POINTER"),
    Type(N_Foo, "RECORD"), Type(T_basic_string, "RECORD"),
    Type(T_vector_int, "RECORD"), Type(T_vector_float, "RECORD"),
    Type(T_vector_double, "RECORD"), Type(T_vector_bool, "RECORD"),
    Type(T_vector_string, "RECORD"), Type(T_vector_Foo, "RECORD"),
    Type(T_vector_Point, "RECORD"), Type(T_vector_basic_string, "RECORD"),
    Type(T_vector_optional_int, "RECORD"), Type(T_vector_open, "RECORD"),
    Type(T_vector_int, "UNEXPOSED"),
    Type(T_optional_Foo, "RECORD"), Type(T_optional_Foo_sp, "RECORD"),
    Type(T_optional_int, "RECORD"), Type(T_optional_double, "RECORD"),
    Type(T_optional_long_long, "RECORD"), Type(T_optional_bool, "RECORD"),
    Type(T_optional_open, "RECORD"), Type(T_optional_vector_int, "RECORD") }

\* the stores the classifier harness starts from: the empty one, and the one
\* left by class Foo { int x; }
HarnessStores == {EmptyDict, Put(EmptyDict, N_Foo, <<<<F_x, S_Int32>>>>)}

(***************************************************************************)
(* 2. Global storage, and 5. main.  argc is len(argv); a third and later    *)
(* argument is only forwarded to the parser.                               *)
(***************************************************************************)
UsageMsg == "Usage: python generate_capnp.py <directory_of_headers> [<extra_clang_args>...]"
WroteMsg == "Wrote schema to generated.capnp"

Init ==
  /\ pc = "main"
  /\ argc \in 1..2
  /\ input = <<>>
  /\ discovered_classes = EmptyDict
  /\ discovered_optionals = EmptyDict
  /\ results = <<>>
  /\ written = FALSE
  /\ output = <<>>
  /\ emitted = <<>>
  /\ printed = <<>>
  /\ exitCode = -1
  /\ calls = <<>>
  /\ ret = <<>>

\* len(argv) < 2: usage, sys.exit(1)
main_usage ==
  /\ pc = "main"
  /\ argc < 2
  /\ printed' = Append(printed, UsageMsg)
  /\ exitCode' = 1
  /\ pc' = "exit"
  /\ UNCHANGED <<argc, input, discovered_classes, discovered_optionals, results,
                 written, output, emitted, calls, ret>>

\* main calls parse_headers_in_directory
main_parse ==
  /\ pc = "main"
  /\ argc >= 2
  /\ pc' = "parse"
  /\ UNCHANGED <<argc, input, discovered_classes, discovered_optionals, results,
                 written, output, emitted, printed, exitCode, calls, ret>>

\* one iteration of the cursor loop of parse_headers_in_directory on a CLASS_DECL
visit_class(c) ==
  /\ pc = "parse"
  /\ Len(input) < MaxDecls
  /\ c.kind = "CLASS_DECL"
  /\ LET st == visit_cursor(c, Store(discovered_classes, discovered_optionals, results))
     IN  /\ discovered_classes' = st.discovered_classes
         /\ discovered_optionals' = st.discovered_optionals
         /\ results' = st.results
  /\ input' = Append(input, c)
  /\ UNCHANGED <<pc, argc, written, output, emitted, printed, exitCode, calls, ret>>

\* one iteration of the cursor loop on any other cursor
visit_other(c) ==
  /\ pc = "parse"
  /\ Len(input) < MaxDecls
  /\ c.kind # "CLASS_DECL"
  /\ input' = Append(input, c)
  /\ UNCHANGED <<pc, argc, discovered_classes, discovered_optionals, results,
                 written, output, emitted, printed, exitCode, calls, ret>>

\* the loops are exhausted; main calls generate_capnp_file and prints
main_generate ==
  /\ pc = "parse"
  /\ written' = TRUE
  /\ output' = generate_capnp_file(discovered_classes, discovered_optionals)
  /\ emitted' = Blocks(discovered_classes, discovered_optionals)
  /\ printed' = Append(printed, WroteMsg)
  /\ exitCode' = 0
  /\ pc' = "done"
  /\ UNCHANGED <<argc, input, discovered_classes, discovered_optionals, results, calls, ret>>

Next ==
  \/ main_usage
  \/ main_parse
  \/ \E c \in ClassCursors(MaxChildren - CountChildren(input)) : visit_class(c)
  \/ \E c \in OtherCursors : visit_other(c)
  \/ main_generate

Spec == Init /\ [][Next]_vars

(***************************************************************************)
(* The classifier on its own: map_field_type_to_capnp called on a sequence *)
(* of field types against the shared dicts.                                *)
(***************************************************************************)
InitClassify ==
  /\ pc = "classify"
  /\ argc = 2
  /\ input = <<>>
  /\ discovered_classes \in HarnessStores
  /\ discovered_optionals = EmptyDict
  /\ results = <<>>
  /\ written = FALSE
  /\ output = <<>>
  /\ emitted = <<>>
  /\ printed = <<>>
  /\ exitCode = -1
  /\ calls = <<>>
  /\ ret = <<>>

classify(t) ==
  /\ pc = "classify"
  /\ Len(calls) < MaxCalls
  /\ LET r == map_field_type_to_capnp(t, discovered_classes, discovered_optionals)
     IN  /\ ret' = r.ret
         /\ discovered_classes' = r.discovered_classes
         /\ discovered_optionals' = r.discovered_optionals
  /\ calls' = Append(calls, t)
  /\ UNCHANGED <<pc, argc, input, results, written, output, emitted, printed, exitCode>>

NextClassify == \E t \in TypePool : classify(t)

SpecClassify == InitClassify /\ [][NextClassify]_vars

(***************************************************************************)
(* Properties of a run of main (Spec).                                     *)
(***************************************************************************)
PrimitiveTypes ==
  {S_Text, S_Int32, S_UInt32, S_Int64, S_UInt64, S_Float32, S_Float64, S_Bool}
ListTypes == {S_ListInt32, S_ListFloat32, S_ListFloat64, S_ListBool, S_ListText}
FixedOptionalNames == {OPTIONAL_TYPE_MAP[k] : k \in DOMAIN OPTIONAL_TYPE_MAP}

\* a type string that refers to a struct by name
IsStructRef(t) == t \notin PrimitiveTypes \cup ListTypes

\* the names of the blocks written, and the type references written inside them
EmittedNames == {emitted[i].name : i \in 1..Len(emitted)}
EmittedRefs ==
  UNION {{emitted[i].lines[j].type : j \in 1..Len(emitted[i].lines)} : i \in 1..Len(emitted)}

IsClassDecl(c) == c.kind = "CLASS_DECL"
IsFieldDecl(ch) == ch.kind = "FIELD_DECL"
FieldChildren(c) == SelectSeq(c.children, IsFieldDecl)
\* what the classifier returns for a type; the return value does not depend on the dicts
ReturnOf(t) == map_field_type_to_capnp(t, EmptyDict, EmptyDict).ret
\* the (name, type) list a class cursor's fields resolve to, in declaration order
ResolvedFields(c) ==
  [k \in 1..Len(FieldChildren(c)) |->
     <<FieldChildren(c)[k].spelling, ReturnOf(FieldChildren(c)[k].type)>>]

\* C1 as stated: when the file has been written, every struct reference inside a
\* written block names a block that is written too, the fixed optional-of-primitive
\* names (OptionalInt32, ...) included.
C1_Closure ==
  pc = "done" => \A t \in EmittedRefs : IsStructRef(t) => t \in EmittedNames

\* C1 amended: when the file has been written, every struct reference inside a
\* written block, other than the five fixed names of OPTIONAL_TYPE_MAP, names a
\* block that is written too.
C1_ClosureButFixedOptionals ==
  pc = "done" =>
    \A t \in EmittedRefs :
      IsStructRef(t) /\ t \notin FixedOptionalNames => t \in EmittedNames

\* a written file in which a field refers to the wrapper OptionalFoo, the wrapper
\* refers to Foo, and another field refers to OptionalInt32
C1_Witness ==
  /\ pc = "done"
  /\ \E i \in 1..Len(emitted) :
       /\ emitted[i].kind = "class"
       /\ \E j \in 1..Len(emitted[i].lines) : emitted[i].lines[j].type = N_OptionalFoo
  /\ \E i \in 1..Len(emitted) :
       /\ emitted[i].kind = "optional"
       /\ emitted[i].name = N_OptionalFoo
       /\ emitted[i].lines[1].type = N_Foo
  /\ N_Foo \in EmittedNames
  /\ S_OptionalInt32 \in EmittedRefs

DistinctNames(cursors) ==
  \A i, j \in 1..Len(cursors) :
    i # j /\ IsClassDecl(cursors[i]) /\ IsClassDecl(cursors[j])
      => cursors[i].spelling # cursors[j].spelling
Orders(n) == {p \in [1..n -> 1..n] : \A i, j \in 1..n : i # j => p[i] # p[j]}
Reordered(cursors, p) == [i \in 1..Len(cursors) |-> cursors[p[i]]]
\* the dicts of a run of the walker from the empty dicts
WalkFromEmpty(cursors) ==
  parse_headers_in_directory(cursors, Store(EmptyDict, EmptyDict, <<>>))

\* C2: when the class declarations of the input have pairwise distinct names, the
\* walker run from empty dicts over any reordering of the input leaves the same
\* discovered_classes and discovered_optionals, and the file text is the same.
C2_Determinism ==
  pc = "done" /\ DistinctNames(input) =>
    \A p \in Orders(Len(input)) :
      LET st == WalkFromEmpty(Reordered(input, p))
      IN  /\ st.discovered_classes = discovered_classes
          /\ st.discovered_optionals = discovered_optionals
          /\ generate_capnp_file(st.discovered_classes, st.discovered_optionals) = output

\* a finished run in which OptionalFoo has a field of type Foo and is declared
\* before Foo, which has fields of its own: Foo is a stub first, then overwritten
C2_Witness ==
  /\ pc = "done"
  /\ Len(input) = 2
  /\ DistinctNames(input)
  /\ IsClassDecl(input[1]) /\ input[1].spelling = N_OptionalFoo
  /\ \E k \in 1..Len(input[1].children) :
       IsFieldDecl(input[1].children[k]) /\ input[1].children[k].type.spelling = N_Foo
  /\ IsClassDecl(input[2]) /\ input[2].spelling = N_Foo
  /\ discovered_classes[N_Foo] # <<>>

\* input[j] is a named class declaration, an earlier class declaration has its
\* name and no later one has
IsSecondOfName(j) ==
  /\ IsClassDecl(input[j])
  /\ input[j].spelling # <<>>
  /\ \E i \in 1..(j - 1) : IsClassDecl(input[i]) /\ input[i].spelling = input[j].spelling
  /\ \A k \in (j + 1)..Len(input) :
       ~(IsClassDecl(input[k]) /\ input[k].spelling = input[j].spelling)

\* the dict holds fields under name, and the block written for name has them
StoredAndEmitted(name, fields) ==
  /\ name \in DOMAIN discovered_classes
  /\ discovered_classes[name] = fields
  /\ \E b \in 1..Len(emitted) :
       /\ emitted[b].kind = "class"
       /\ emitted[b].name = name
       /\ Len(emitted[b].lines) = Len(fields)
       /\ \A k \in 1..Len(fields) : emitted[b].lines[k].type = fields[k][2]

\* C3 as stated: of two class declarations with the same name, the fields stored
\* and written under the name at the end are those of the second.
C3_LastWriteWins ==
  pc = "done" =>
    \A j \in 1..Len(input) :
      IsSecondOfName(j) => StoredAndEmitted(input[j].spelling, ResolvedFields(input[j]))

\* C3 amended: of two class declarations with the same name, the second of which
\* has at least one field, the fields stored and written under the name at the
\* end are those of the second.
C3_LastNonEmptyWriteWins ==
  pc = "done" =>
    \A j \in 1..Len(input) :
      IsSecondOfName(j) /\ ResolvedFields(input[j]) # <<>>
        => StoredAndEmitted(input[j].spelling, ResolvedFields(input[j]))

\* a finished run over two declarations of class Foo with different, non-empty
\* field lists
C3_Witness ==
  /\ pc = "done"
  /\ Len(input) = 2
  /\ IsClassDecl(input[1]) /\ input[1].spelling = N_Foo
  /\ IsClassDecl(input[2]) /\ input[2].spelling = N_Foo
  /\ ResolvedFields(input[1]) # <<>>
  /\ ResolvedFields(input[2]) # <<>>
  /\ ResolvedFields(input[1]) # ResolvedFields(input[2])

\* C4: when the walker stored no class declaration (none with a name and at least
\* one field), main ends without writing the file and without reporting success.
C4_NoFileWhenNothingFound ==
  pc = "done" /\ results = <<>> => ~written /\ WroteMsg \notin Range(printed)

\* C5: no two blocks of the written file have the same struct name.
C5_CollisionFree ==
  pc = "done" =>
    \A i, j \in 1..Len(emitted) : i # j => emitted[i].name # emitted[j].name

\* input[i] is the last class declaration of its name that is stored
IsLastStored(i) ==
  /\ IsClassDecl(input[i])
  /\ input[i].spelling # <<>>
  /\ FieldChildren(input[i]) # <<>>
  /\ \A k \in (i + 1)..Len(input) :
       ~(/\ IsClassDecl(input[k])
         /\ input[k].spelling = input[i].spelling
         /\ FieldChildren(input[k]) # <<>>)

\* C6: for every record that a declaration supplied fields to, exactly one record
\* block is written, and its lines are the declaration's fields in declaration
\* order: line k has index k-1, the lowercased name of field k and the type field
\* k resolves to; every record block with lines is such a block.
C6_FieldOrder ==
  pc = "done" =>
    /\ \A i \in 1..Len(input) :
         IsLastStored(i) =>
           LET fc == FieldChildren(input[i])
               bs == {b \in 1..Len(emitted) :
                        emitted[b].kind = "class" /\ emitted[b].name = input[i].spelling}
           IN  /\ Cardinality(bs) = 1
               /\ \A b \in bs :
                    /\ Len(emitted[b].lines) = Len(fc)
                    /\ \A k \in 1..Len(fc) :
                         /\ emitted[b].lines[k].idx = k - 1
                         /\ emitted[b].lines[k].name = Lower(fc[k].spelling)
                         /\ emitted[b].lines[k].type = ReturnOf(fc[k].type)
    /\ \A b \in 1..Len(emitted) :
         emitted[b].kind = "class" /\ emitted[b].lines # <<>> =>
           \E i \in 1..Len(input) : IsLastStored(i) /\ input[i].spelling = emitted[b].name

\* a written file with a record block of two lines whose field names are not in
\* alphabetical order, next to another record block
C6_Witness ==
  /\ pc = "done"
  /\ \E b \in 1..Len(emitted) :
       /\ emitted[b].kind = "class"
       /\ Len(emitted[b].lines) = 2
       /\ LexLess(emitted[b].lines[2].name, emitted[b].lines[1].name)
       /\ \E c \in 1..Len(emitted) : c # b /\ emitted[c].kind = "class"

\* C9: the step that visits a class declaration with an empty name leaves
\* discovered_classes and discovered_optionals as they were.
C9_AnonymousSkipped ==
  [][ (/\ Len(input') = Len(input) + 1
       /\ IsClassDecl(input'[Len(input')])
       /\ input'[Len(input')].spelling = <<>>)
      => (discovered_classes' = discovered_classes /\
          discovered_optionals' = discovered_optionals) ]_vars

(***************************************************************************)
(* Properties of the classifier (SpecClassify).                            *)
(***************************************************************************)
StartsWith(s, prefix) == Len(prefix) <= Len(s) /\ SubSeq(s, 1, Len(prefix)) = prefix
EndsWith(s, c) == Len(s) > 0 /\ s[Len(s)] = c

\* the text between the first "<" and the last ">" (or the end), stripped
InnerSpelling(s) ==
  Strip(Slice(s, Find(s, "<") + 1, IF RFind(s, ">") = -1 THEN Len(s) ELSE RFind(s, ">")))

\* the list type by the priority order int, float, double, bool, text
ListByPriority(inner) ==
  CASE Contains(S_int, inner) -> S_ListInt32
    [] ~Contains(S_int, inner) /\ Contains(S_float, inner) -> S_ListFloat32
    [] ~Contains(S_int, inner) /\ ~Contains(S_float, inner) /\ Contains(S_double, inner)
         -> S_ListFloat64
    [] ~Contains(S_int, inner) /\ ~Contains(S_float, inner) /\ ~Contains(S_double, inner)
         /\ Contains(S_bool, inner) -> S_ListBool
    [] OTHER -> S_ListText

\* C7: the call last made on a RECORD type spelled std::vector<...> returned the
\* list type its element spelling selects by the priority order, List(Text) when
\* nothing matches.
C7_ListUnwrapping ==
  Len(calls) > 0 =>
    LET t == calls[Len(calls)]
    IN  t.kind = "RECORD" /\ StartsWith(t.spelling, S_std_vector) /\ EndsWith(t.spelling, ">")
          => ret = ListByPriority(InnerSpelling(t.spelling))

\* the type is boost::optional of a name that is no key of OPTIONAL_TYPE_MAP
IsOptionalOfClass(t) ==
  /\ Contains(S_boost_optional, t.spelling)
  /\ ~parse_boost_optional(t.spelling).isNone
  /\ parse_boost_optional(t.spelling).val \notin DOMAIN OPTIONAL_TYPE_MAP

\* C8: a call on optional-of-Foo with Foo unknown adds exactly the stub Foo -> []
\* and the wrapper OptionalFoo -> Foo; a call with Foo known leaves
\* discovered_classes alone; a call with the wrapper present leaves both dicts
\* alone; each returns OptionalFoo.
C8_IdempotentOptional ==
  [][ (Len(calls') = Len(calls) + 1 /\ IsOptionalOfClass(calls'[Len(calls')])) =>
        LET base == parse_boost_optional(calls'[Len(calls')].spelling).val
            opt  == S_Optional \o base
        IN  /\ ret' = opt
            /\ base \notin DOMAIN discovered_classes =>
                 /\ discovered_classes' = Put(discovered_classes, base, <<>>)
                 /\ discovered_optionals' = Put(discovered_optionals, opt, base)
            /\ base \in DOMAIN discovered_classes =>
                 discovered_classes' = discovered_classes
            /\ opt \in DOMAIN discovered_optionals =>
                 /\ discovered_classes' = discovered_classes
                 /\ discovered_optionals' = discovered_optionals ]_vars

\* two calls on optional-of-Foo from the empty dicts: one stub, one wrapper
C8_Witness ==
  /\ pc = "classify"
  /\ Len(calls) = 2
  /\ calls[1].spelling = T_optional_Foo
  /\ calls[2].spelling \in {T_optional_Foo, T_optional_Foo_sp}
  /\ ret = N_OptionalFoo
  /\ DOMAIN discovered_classes = {N_Foo}
  /\ discovered_classes[N_Foo] = <<>>
  /\ DOMAIN discovered_optionals = {N_OptionalFoo}
  /\ discovered_optionals[N_OptionalFoo] = N_Foo

\* the spelling has the optional syntax but no single type name inside: the
\* closing bracket is missing, or what is inside is itself a generic
IsMalformedOptional(t) ==
  /\ StartsWith(t.spelling, S_boost_optional)
  /\ \/ RFind(t.spelling, ">") < Find(t.spelling, "<")
     \/ Find(InnerSpelling(t.spelling), "<") # -1

\* C10: a call on a malformed or nested optional returns Text and leaves
\* discovered_classes and discovered_optionals as they were.
C10_MalformedOptionalFallback ==
  [][ (Len(calls') = Len(calls) + 1 /\ IsMalformedOptional(calls'[Len(calls')])) =>
        /\ ret' = S_Text
        /\ discovered_classes' = discovered_classes
        /\ discovered_optionals' = discovered_optionals ]_vars

====
